---------------------------- MODULE Spec2Model ----------------------------
(***************************************************************************)
(* F1 Smart Search: the question router (parse_question), the answer       *)
(* engine (answer_with_db, answer_with_live, build_answer), the chat       *)
(* session of app.py and the citation extraction of backend/rag_web.py.    *)
(*                                                                         *)
(* Text is a sequence of one-character strings.  Python's None and the     *)
(* empty string are both the empty sequence: every test the code makes on  *)
(* an optional value is a truthiness test (if team:, if out:, x or y).     *)
(* An optional year is <<>> or <<y>>.                                      *)
(***************************************************************************)
EXTENDS Integers, Sequences, FiniteSets, TLC

VARIABLES
    DB_OK,       \* app.py:86   startup probe of the fact store
    LIVE_OK,     \* app.py:87   startup probe of the live service
    latestYear,  \* fact store content: MAX(year) of races, <<>> when NULL
    msgs,        \* st.session_state.msgs: sequence of <<role, content>>
    pc,          \* position of the script run / build_answer; "ended" and
                 \* "crashed" are the run's last states, its locals still readable
    prompt,      \* the submitted question
    intent,      \* parse_question's intent
    args,        \* parse_question's slots [team, driver, year]
    year,        \* answer_with_db("auto"): the local year of line 304
    out,         \* build_answer's local out after step 1
    ans,         \* the text build_answer returned
    outcome,     \* "none" | "returned" | "raised" for the current request
    calls,       \* backend invocations of the current request, in order
    submitted,   \* number of questions submitted in the session
    pq,          \* parse_question alone: the question
    pres,        \* parse_question alone: <<>> or <<[slots, result]>>
    resp,        \* ask_live alone: the live service's response
    cites,       \* ask_live alone: <<>> or <<citation list>>
    llm,         \* sql_agent.answer: the text inside the model's ```sql fence,
                 \* <<>> or <<body>>
    max_rows,    \* sql_agent.answer: its parameter
    sqlpc,       \* sql_agent.answer: position in answer()
    sql,         \* sql_agent.answer: the local sql
    passed,      \* sql_agent.answer: <<>> or <<the text llm_to_sql returned>>
    connected,   \* sql_agent.answer: duckdb.connect has been called
    executed     \* sql_agent.answer: <<>> or <<the text given to con.execute>>

appVars == <<DB_OK, LIVE_OK, latestYear, msgs, pc, prompt, intent, args, year,
             out, ans, outcome, calls, submitted>>
parseVars == <<pq, pres>>
liveVars == <<resp, cites>>
sqlVars == <<llm, max_rows, sqlpc, sql, passed, connected, executed>>
vars == <<DB_OK, LIVE_OK, latestYear, msgs, pc, prompt, intent, args, year,
          out, ans, outcome, calls, submitted, pq, pres, resp, cites,
          llm, max_rows, sqlpc, sql, passed, connected, executed>>

None == <<>>

(***************************************************************************)
(* Characters and the str methods the code uses.                           *)
(***************************************************************************)
LowerSeq == <<"a","b","c","d","e","f","g","h","i","j","k","l","m","n","o","p","q","r","s","t","u","v","w","x","y","z">>
UpperSeq == <<"A","B","C","D","E","F","G","H","I","J","K","L","M","N","O","P","Q","R","S","T","U","V","W","X","Y","Z">>
DigitSeq == <<"0","1","2","3","4","5","6","7","8","9">>

Range(s) == {s[i] : i \in 1..Len(s)}
Lowers == Range(LowerSeq)
Uppers == Range(UpperSeq)
Digits == Range(DigitSeq)
IsLower(c) == c \in Lowers
IsUpper(c) == c \in Uppers
IsLetter(c) == IsLower(c) \/ IsUpper(c)
IsDigit(c) == c \in Digits
Newline == "\n"
Tab == "\t"
IsSpace(c) == c \in {" ", Newline, Tab}

IndexIn(s, c) == CHOOSE i \in 1..Len(s) : s[i] = c

\* str.lower() on one character
ToLower(c) == IF IsUpper(c) THEN LowerSeq[IndexIn(UpperSeq, c)] ELSE c
\* str.upper() on one character
ToUpper(c) == IF IsLower(c) THEN UpperSeq[IndexIn(LowerSeq, c)] ELSE c

\* str.lower()
RECURSIVE Lower(_)
Lower(s) == IF s = <<>> THEN <<>> ELSE Append(Lower(SubSeq(s, 1, Len(s) - 1)), ToLower(s[Len(s)]))

\* str.title(): a letter is upper-cased after a non-letter, lower-cased after a letter
TitleChar(s, i) ==
    IF ~IsLetter(s[i]) THEN s[i]
    ELSE IF i > 1 /\ IsLetter(s[i - 1]) THEN ToLower(s[i]) ELSE ToUpper(s[i])

RECURSIVE TitleUpTo(_, _)
TitleUpTo(s, n) == IF n = 0 THEN <<>> ELSE Append(TitleUpTo(s, n - 1), TitleChar(s, n))

Title(s) == TitleUpTo(s, Len(s))

RECURSIVE LStrip(_)
LStrip(s) == IF s # <<>> /\ IsSpace(Head(s)) THEN LStrip(Tail(s)) ELSE s

RECURSIVE RStrip(_)
RStrip(s) ==
    IF s # <<>> /\ IsSpace(s[Len(s)]) THEN RStrip(SubSeq(s, 1, Len(s) - 1)) ELSE s

\* str.strip()
Strip(s) == RStrip(LStrip(s))

\* pattern p occurs in s at position i
MatchAt(s, p, i) ==
    /\ i >= 1
    /\ i + Len(p) - 1 <= Len(s)
    /\ \A j \in 1..Len(p) : s[i + j - 1] = p[j]

\* Python's `p in s`
Contains(s, p) == \E i \in 1..(Len(s) + 1) : MatchAt(s, p, i)

\* str.split(): the maximal runs of non-whitespace characters
RECURSIVE SplitFrom(_, _, _)
SplitFrom(s, i, cur) ==
    IF i > Len(s) THEN (IF cur = <<>> THEN <<>> ELSE <<cur>>)
    ELSE IF IsSpace(s[i])
         THEN (IF cur = <<>> THEN <<>> ELSE <<cur>>) \o SplitFrom(s, i + 1, <<>>)
         ELSE SplitFrom(s, i + 1, Append(cur, s[i]))

Split(s) == SplitFrom(s, 1, <<>>)

\* re.sub(r"\s+", " ", s): every run of whitespace becomes one space
RECURSIVE Squeeze(_)
Squeeze(s) ==
    IF s = <<>> THEN <<>>
    ELSE IF IsSpace(Head(s)) /\ Len(s) > 1 /\ IsSpace(s[2]) THEN Squeeze(Tail(s))
    ELSE <<Head(s)>> \o Squeeze(Tail(s))

\* int() of a digit string
RECURSIVE IntOf(_)
IntOf(s) ==
    IF s = <<>> THEN 0
    ELSE 10 * IntOf(SubSeq(s, 1, Len(s) - 1)) + (IndexIn(DigitSeq, s[Len(s)]) - 1)

\* str() of a natural number
RECURSIVE StrOf(_)
StrOf(n) == IF n < 10 THEN <<DigitSeq[n + 1]>> ELSE StrOf(n \div 10) \o <<DigitSeq[(n % 10) + 1]>>

Min(S) == CHOOSE x \in S : \A y \in S : x <= y

(***************************************************************************)
(* NL -> action router (app.py:195-245)                                    *)
(***************************************************************************)
\* YEAR_RE = r"(19|20)\d{2}" matches at position i
YearAt(s, i) ==
    /\ i + 3 <= Len(s)
    /\ (MatchAt(s, <<"1","9">>, i) \/ MatchAt(s, <<"2","0">>, i))
    /\ IsDigit(s[i + 2])
    /\ IsDigit(s[i + 3])

\* the positions at which YEAR_RE matches
YEAR_RE(s) == {i \in 1..Len(s) : YearAt(s, i)}

\* the alternatives of TEAM_RE, in the order the pattern lists them
TeamAlts ==
    << <<"f","e","r","r","a","r","i">>, <<"m","e","r","c","e","d","e","s">>, <<"r","e","d"," ","b","u","l","l">>, <<"m","c","l","a","r","e","n">>, <<"a","s","t","o","n"," ","m","a","r","t","i","n">>,
       <<"w","i","l","l","i","a","m","s">>, <<"a","l","p","i","n","e">>, <<"s","a","u","b","e","r">>, <<"h","a","a","s">>, <<"r","b">>, <<"a","l","p","h","a","t","a","u","r","i">>,
       <<"t","o","r","o"," ","r","o","s","s","o">>, <<"r","e","n","a","u","l","t">> >>

\* the characters an alternative of TEAM_RE can start with
TeamFirsts == {TeamAlts[k][1] : k \in 1..Len(TeamAlts)}

\* the positions at which TEAM_RE matches (an alternative is only tried where the
\* text has its first character)
TEAM_RE(s) ==
    {i \in 1..Len(s) :
        s[i] \in TeamFirsts /\ \E k \in 1..Len(TeamAlts) : MatchAt(s, TeamAlts[k], i)}

\* re.search(TEAM_RE, s).group(0), given the positions P at which it matches: the
\* leftmost position, the first alternative matching there
TeamMatch(s, P) ==
    TeamAlts[Min({k \in 1..Len(TeamAlts) : MatchAt(s, TeamAlts[k], Min(P))})]

\* "normalize some historical variants" (app.py:214-218)
NormalizeTeam(t) ==
    IF t \in {<<"A","l","p","h","a"," ","T","a","u","r","i">>, <<"A","l","p","h","a","T","a","u","r","i">>, <<"T","o","r","o"," ","R","o","s","s","o">>} THEN <<"A","l","p","h","a","T","a","u","r","i">>
    ELSE IF t = <<"R","b">> THEN <<"R","B">>
    ELSE t

\* the year slot (app.py:204-207): int(m.group(0)) of the leftmost match
ExtractYear(text) ==
    LET P == YEAR_RE(text)
    IN  IF P = {} THEN None ELSE <<IntOf(SubSeq(text, Min(P), Min(P) + 3))>>

\* the team slot (app.py:210-218)
ExtractTeam(text) ==
    LET P == TEAM_RE(text)
    IN  IF P = {} THEN None ELSE NormalizeTeam(Title(TeamMatch(text, P)))

\* _normalize_name (app.py:98-99)
normalize_name(s) == Title(Squeeze(Strip(s)))

\* re.match(r"^[A-Za-z][a-z]+ [A-Za-z][a-z\-']+$", w1 + " " + w2), w1 and w2
\* free of whitespace
NameWord(w, extra) ==
    /\ Len(w) >= 2
    /\ IsLetter(w[1])
    /\ \A i \in 2..Len(w) : IsLower(w[i]) \/ w[i] \in extra

CandMatches(w1, w2) == NameWord(w1, {}) /\ NameWord(w2, {"-", "'"})

\* the loop over adjacent words (app.py:224-228): the first pair that matches
RECURSIVE DriverFrom(_, _)
DriverFrom(words, i) ==
    IF i + 1 > Len(words) THEN None
    ELSE IF CandMatches(words[i], words[i + 1])
         THEN normalize_name(words[i] \o <<" ">> \o words[i + 1])
    ELSE DriverFrom(words, i + 1)

\* the driver slot (app.py:221-228)
ExtractDriver(q) == DriverFrom(Split(Strip(q)), 1)

Result(i, t, d, y) == [intent |-> i, team |-> t, driver |-> d, year |-> y]

\* the phrase tests of the intent rules (app.py:231-241)
DrivesPhrase(text) ==
    Contains(text, <<"w","h","o"," ","d","r","i","v","e","s"," ","f","o","r">>) \/ Contains(text, <<"d","r","i","v","e","r","s"," ","f","o","r">>)
        \/ Contains(text, <<"w","h","o"," ","d","r","i","v","e","s">>)
WinsPhrase(text) == Contains(text, <<"w","i","n","s">>)
ChampDriverPhrase(text) ==
    Contains(text, <<"w","h","o"," ","w","o","n">>)
        \/ (Contains(text, <<"c","h","a","m","p","i","o","n">>) /\ Contains(text, <<"d","r","i","v","e","r">>))
ChampConstructorPhrase(text) == Contains(text, <<"c","o","n","s","t","r","u","c","t","o","r">>) /\ Contains(text, <<"c","h","a","m","p","i","o","n">>)
PointsPhrase(text) ==
    Contains(text, <<"p","o","i","n","t","s"," ","b","y"," ","r","a","c","e">>)
        \/ (Contains(text, <<"p","o","i","n","t","s">>) /\ Contains(text, <<"b","y"," ","r","a","c","e">>))

\* the rule chain with the wins rule tried before the who-drives rule
MapIntentSwapped(text, team, driver, yr) ==
    IF WinsPhrase(text) /\ driver # None THEN Result("driver_wins", None, driver, yr)
    ELSE IF DrivesPhrase(text) /\ team # None THEN Result("team_drivers", team, None, yr)
    ELSE IF ChampDriverPhrase(text) /\ yr # None THEN Result("champ_driver", None, None, yr)
    ELSE IF ChampConstructorPhrase(text) /\ yr # None
         THEN Result("champ_constructor", None, None, yr)
    ELSE IF PointsPhrase(text) /\ team # None THEN Result("team_points", team, None, yr)
    ELSE Result("auto", team, driver, yr)

\* "Map intents" (app.py:230-245); a key the returned dict lacks reads as None,
\* as args.get does
MapIntent(text, team, driver, yr) ==
    IF DrivesPhrase(text) /\ team # None THEN Result("team_drivers", team, None, yr)
    ELSE IF WinsPhrase(text) /\ driver # None THEN Result("driver_wins", None, driver, yr)
    ELSE IF ChampDriverPhrase(text) /\ yr # None THEN Result("champ_driver", None, None, yr)
    ELSE IF ChampConstructorPhrase(text) /\ yr # None
         THEN Result("champ_constructor", None, None, yr)
    ELSE IF PointsPhrase(text) /\ team # None THEN Result("team_points", team, None, yr)
    ELSE Result("auto", team, driver, yr)

\* the locals of parse_question before the intents are mapped (app.py:203-228)
Slots(q) ==
    LET text == Lower(Strip(q))
    IN  [text |-> text, team |-> ExtractTeam(text), driver |-> ExtractDriver(q),
         year |-> ExtractYear(text)]

MapSlots(s) == MapIntent(s.text, s.team, s.driver, s.year)

\* parse_question (app.py:198-245)
parse_question(q) == MapSlots(Slots(q))


(***************************************************************************)
(* The fact store (app.py:51-57, 92-190).  What the database does with one *)
(* query is an input: "raise" (execute throws), "empty" (no row), "rows"   *)
(* (rows the formatter can render) or "bad" (rows holding a NULL where the *)
(* formatter needs a value).                                               *)
(***************************************************************************)
QueryRes == {"raise", "empty", "rows", "bad"}
LatestRes == {"raise", "ok"}

Call(op, team, driver, yr, res) ==
    [op |-> op, team |-> team, driver |-> driver, year |-> yr, res |-> res]

\* _safe_query without its try/except: the exception leaves as it came
SafeQueryUnguarded(r) == r

\* _safe_query (app.py:51-57): an exception becomes an empty DataFrame
safe_query(r) == IF r = "raise" THEN "empty" ELSE r

\* _latest_year (app.py:92-96): MAX(year) of the calendar, None when the query
\* fails or the calendar is empty
latest_year(l) == IF safe_query(l) = "empty" THEN None ELSE latestYear

LatestCall(l) == Call("latest_year", None, None, None, l)

\* "if year is None: year = _latest_year()" (app.py:105-106, 123-124, 179-180)
QueryYear(yr, l) == IF yr = None THEN latest_year(l) ELSE yr
QueryYearCalls(yr, l) == IF yr = None THEN <<LatestCall(l)>> ELSE <<>>

Df(df, cs) == [df |-> df, calls |-> cs]

\* q_constructor_drivers (app.py:101-120)
q_constructor_drivers(team, yr, l, r) ==
    Df(safe_query(r),
       QueryYearCalls(yr, l)
           \o <<Call("q_constructor_drivers", team, None, QueryYear(yr, l), r)>>)

\* q_driver_wins (app.py:122-136)
q_driver_wins(driver, yr, l, r) ==
    Df(safe_query(r),
       QueryYearCalls(yr, l) \o <<Call("q_driver_wins", None, driver, QueryYear(yr, l), r)>>)

\* q_driver_champion (app.py:138-159)
q_driver_champion(yr, r) ==
    Df(safe_query(r), <<Call("q_driver_champion", None, None, yr, r)>>)

\* q_constructor_champion (app.py:161-176)
q_constructor_champion(yr, r) ==
    Df(safe_query(r), <<Call("q_constructor_champion", None, None, yr, r)>>)

\* q_points_by_race_for_constructor (app.py:178-190)
q_points_by_race_for_constructor(team, yr, l, r) ==
    Df(safe_query(r),
       QueryYearCalls(yr, l)
           \o <<Call("q_points_by_race_for_constructor", team, None, QueryYear(yr, l), r)>>)

\* what the database can answer to a call: a comparison with a NULL year selects
\* no row, and COUNT(*) always yields its one row
FeasibleCall(c) ==
    CASE c.op = "latest_year" -> c.res \in LatestRes
      [] c.op \in {"q_constructor_drivers", "q_points_by_race_for_constructor"} ->
            c.res \in QueryRes /\ (c.year = None => c.res \in {"raise", "empty"})
      [] c.op = "q_driver_wins" -> c.res \in {"raise", "rows"}
      [] c.op \in {"q_driver_champion", "q_constructor_champion"} -> c.res \in QueryRes
      [] OTHER -> TRUE

(***************************************************************************)
(* Answer engine (app.py:250-359)                                          *)
(***************************************************************************)
\* str(year) inside an f-string
YearText(y) == IF y = None THEN <<"N","o","n","e">> ELSE StrOf(y[1])

FmtTeamDrivers(team, y) ==
    <<"*","*">> \o team \o <<"*","*"," ","d","r","i","v","e","r","s"," ","i","n"," ","*","*">> \o YearText(y) \o <<"*","*",":"," ","<","d","r","i","v","e","r","s",">",".">>
FmtDriverWins(driver, y) ==
    <<"*","*">> \o driver \o <<"*","*"," ","w","i","n","s"," ","i","n"," ","*","*">> \o YearText(y) \o <<"*","*",":"," ","*","*","<","w",">","*","*",".">>
FmtChampDriver(y) ==
    <<"*","*">> \o YearText(y) \o <<" ","F","1"," ","D","r","i","v","e","r"," ","C","h","a","m","p","i","o","n",":","*","*"," ","*","*","<","c","h","a","m","p","i","o","n",">","*","*"," ","P","o","i","n","t","s",":"," ","<","p",">"," ","W","i","n","s",":"," ","<","w",">">>
FmtChampConstructor(y) ==
    <<"*","*">> \o YearText(y) \o <<" ","F","1"," ","C","o","n","s","t","r","u","c","t","o","r","s","'"," ","C","h","a","m","p","i","o","n",":","*","*"," ","*","*","<","c","h","a","m","p","i","o","n",">","*","*"," ","P","o","i","n","t","s",":"," ","<","p",">"," ","W","i","n","s",":"," ","<","w",">">>
FmtTeamPoints(team, y) ==
    <<"*","*">> \o team \o <<" ","p","o","i","n","t","s"," ","b","y"," ","r","a","c","e"," ","i","n"," ">> \o YearText(y) \o <<":","*","*"," ","-"," ","R","o","u","n","d"," ","<","n",">",":"," ","<","r","a","c","e",">"," ","<","p","t","s",">"," ","p","t","s">>

\* the value of one answer_with_db call: the text or None, or an exception (the
\* formatting of the rows raised, or an exception of the query that nothing
\* caught), with the queries it made
Ret(df, text, cs) ==
    [out |-> IF df = "rows" THEN text ELSE None, exc |-> df \in {"bad", "raise"},
     calls |-> cs]

\* the latest year of the calendar preferred to the year of the question
YearOrLatestFirst(yr, l) == IF latest_year(l) # None THEN latest_year(l) ELSE yr

\* "args.get("year") or _latest_year()" (app.py:257, 266, 291, 304)
YearOr(yr, l) == IF yr # None THEN yr ELSE latest_year(l)
YearOrCalls(yr, l) == IF yr # None THEN <<>> ELSE <<LatestCall(l)>>

\* answer_with_db for the five direct intents (app.py:255-298)
answer_with_db(i, a, l1, l2, r) ==
    CASE i = "team_drivers" ->
            LET y == YearOr(a.year, l1)
                q == q_constructor_drivers(a.team, y, l2, r)
            IN  Ret(q.df, FmtTeamDrivers(a.team, y), YearOrCalls(a.year, l1) \o q.calls)
      [] i = "driver_wins" ->
            LET y == YearOr(a.year, l1)
                q == q_driver_wins(a.driver, y, l2, r)
            IN  Ret(q.df, FmtDriverWins(a.driver, y), YearOrCalls(a.year, l1) \o q.calls)
      [] i = "champ_driver" ->
            LET q == q_driver_champion(a.year, r)
            IN  Ret(q.df, FmtChampDriver(a.year), q.calls)
      [] i = "champ_constructor" ->
            LET q == q_constructor_champion(a.year, r)
            IN  Ret(q.df, FmtChampConstructor(a.year), q.calls)
      [] i = "team_points" ->
            LET y == YearOr(a.year, l1)
                q == q_points_by_race_for_constructor(a.team, y, l2, r)
            IN  Ret(q.df, FmtTeamPoints(a.team, y), YearOrCalls(a.year, l1) \o q.calls)

\* the live service's answer to generate_content: it raises, or rsp.text is None,
\* blank or a sentence
LiveResponses ==
    {[raise |-> TRUE, text |-> None]}
        \cup {[raise |-> FALSE, text |-> t] : t \in {None, <<" "," ">>, <<" ","V","e","r","s","t","a","p","p","e","n"," ","l","e","a","d","s","."," ">>}}

\* answer_with_live after the LIVE_OK test (app.py:328-342)
answer_with_live(rsp) == IF rsp.raise THEN None ELSE Strip(rsp.text)

NoResultMsg ==
    <<"I"," ","d","i","d","n","'","t"," ","f","i","n","d"," ","a"," ","r","e","s","u","l","t"," ","w","i","t","h"," ","t","h","e"," ","c","u","r","r","e","n","t"," ","b","a","c","k","-","e","n","d","s","."," ","T","r","y"," ","a"," ","m","o","r","e"," ","s","p","e","c","i","f","i","c"," ","F","1"," ","q","u","e","r","y",","," ","o","r"," ","e","n","a","b","l","e"," ","D","B","/","L","I","V","E"," ","i","n"," ","y","o","u","r"," ","d","e","p","l","o","y","m","e","n","t",".">>

\* build_answer calling the live backend whatever step 1 produced
AfterDbAlwaysLive(o) == "live"

\* build_answer, "if out: return out" after step 1 (app.py:348-350)
AfterDb(o) == IF o # None THEN "render" ELSE "live"

\* the auto chain going on to the next lookup whatever the last one returned
AutoAfterNeverStops(o, next) == next

\* answer_with_db("auto"), "if out: return out" after a lookup (app.py:307-319)
AutoAfter(o, next) == IF o # None THEN "return" ELSE next

\* answer_with_db("auto"), "if year:" (app.py:309)
AutoHasYear(y) == y # None

(***************************************************************************)
(* The chat session (app.py:380-402): one script run per submitted         *)
(* question.  pc follows the run through build_answer.                     *)
(***************************************************************************)
MaxQuestions == 2

AppQuestions ==
    { <<"w","h","o"," ","d","r","i","v","e","s"," ","f","o","r"," ","F","e","r","r","a","r","i">>, <<"M","a","x"," ","V","e","r","s","t","a","p","p","e","n"," ","w","i","n","s"," ","2","0","2","3">>, <<"w","h","o"," ","w","o","n"," ","2","0","2","1">>,
      <<"F","e","r","r","a","r","i"," ","p","o","i","n","t","s"," ","b","y"," ","r","a","c","e"," ","2","0","2","4">>, <<"l","a","t","e","s","t"," ","F","e","r","r","a","r","i"," ","2","0","2","3">>, <<"F","e","r","r","a","r","i">>,
      <<"h","e","l","l","o">> }

ParsedApp == [q \in AppQuestions |-> parse_question(q)]

NoArgs == [team |-> None, driver |-> None, year |-> None]

ParseIdle == pq = <<>> /\ pres = None
LiveIdle == resp = [support |-> <<>>, failAt |-> 0, links |-> <<>>] /\ cites = None
SqlIdle ==
    /\ llm = None /\ max_rows = 0 /\ sqlpc = "idle" /\ sql = <<>> /\ passed = None
    /\ connected = FALSE /\ executed = None

Init ==
    /\ DB_OK \in BOOLEAN
    /\ LIVE_OK \in BOOLEAN
    /\ latestYear \in {None, <<2024>>}
    /\ msgs = <<>>
    /\ pc = "idle"
    /\ prompt = <<>>
    /\ intent = "auto"
    /\ args = NoArgs
    /\ year = None
    /\ out = None
    /\ ans = None
    /\ outcome = "none"
    /\ calls = <<>>
    /\ submitted = 0
    /\ ParseIdle
    /\ LiveIdle
    /\ SqlIdle

sessionFrame == <<DB_OK, LIVE_OK, latestYear, pq, pres, resp, cites, sqlVars>>

\* the chat input yields a prompt (app.py:390-399): the user turn is appended and
\* build_answer starts by parsing the question (app.py:345)
Submit(q) ==
    /\ pc = "idle"
    /\ submitted < MaxQuestions
    /\ msgs' = Append(msgs, <<"user", q>>)
    /\ prompt' = q
    /\ LET p == ParsedApp[q]
       IN  /\ intent' = p.intent
           /\ args' = [team |-> p.team, driver |-> p.driver, year |-> p.year]
    /\ year' = None
    /\ out' = None
    /\ ans' = None
    /\ outcome' = "none"
    /\ calls' = <<>>
    /\ submitted' = submitted + 1
    /\ pc' = "db"
    /\ UNCHANGED sessionFrame

\* an exception leaves build_answer: the script run ends at line 399, nothing
\* after it runs
Raise(cs) ==
    /\ calls' = calls \o cs
    /\ outcome' = "raised"
    /\ pc' = "crashed"
    /\ UNCHANGED <<msgs, prompt, intent, args, year, out, ans, submitted, sessionFrame>>

\* answer_with_db returns o to build_answer (app.py:348-350)
ReturnDb(o, cs) ==
    /\ calls' = calls \o cs
    /\ out' = o
    /\ pc' = AfterDb(o)
    /\ IF AfterDb(o) = "render"
       THEN ans' = o /\ outcome' = "returned"
       ELSE UNCHANGED <<ans, outcome>>
    /\ UNCHANGED <<msgs, prompt, intent, args, year, submitted, sessionFrame>>

\* one lookup of the auto chain has returned o; the chain stops or goes on
AutoStep(r, next) ==
    IF r.exc THEN Raise(r.calls)
    ELSE IF AutoAfter(r.out, next) = "return" THEN ReturnDb(r.out, r.calls)
    ELSE /\ calls' = calls \o r.calls
         /\ pc' = AutoAfter(r.out, next)
         /\ UNCHANGED <<msgs, prompt, intent, args, year, out, ans, outcome, submitted,
                        sessionFrame>>

Skip(next) ==
    /\ pc' = next
    /\ UNCHANGED <<msgs, prompt, intent, args, year, out, ans, outcome, calls, submitted,
                   sessionFrame>>

\* answer_with_db without its DB_OK test: the lookup is sent to the missing
\* store, fails and is caught
DbOffStillQueries ==
    /\ pc = "db"
    /\ ~DB_OK
    /\ ReturnDb(None, <<LatestCall("raise")>>)

\* answer_with_db with the structured backend off (app.py:252-253)
DbOff ==
    /\ pc = "db"
    /\ ~DB_OK
    /\ ReturnDb(None, <<>>)

\* answer_with_db for a direct intent (app.py:255-298)
DbDirect ==
    /\ pc = "db"
    /\ DB_OK
    /\ intent # "auto"
    /\ \E l1 \in LatestRes, l2 \in LatestRes, r \in QueryRes :
          LET res == answer_with_db(intent, args, l1, l2, r)
          IN  /\ \A k \in 1..Len(res.calls) : FeasibleCall(res.calls[k])
              /\ IF res.exc THEN Raise(res.calls) ELSE ReturnDb(res.out, res.calls)

\* answer_with_db("auto") resolves its year (app.py:301-304)
AutoYear ==
    /\ pc = "db"
    /\ DB_OK
    /\ intent = "auto"
    /\ \E l \in LatestRes :
          /\ year' = YearOr(args.year, l)
          /\ calls' = calls \o YearOrCalls(args.year, l)
    /\ pc' = "auto_team"
    /\ UNCHANGED <<msgs, prompt, intent, args, out, ans, outcome, submitted, sessionFrame>>

\* app.py:305-308
AutoTeam ==
    /\ pc = "auto_team"
    /\ \/ /\ args.team = None
          /\ Skip("auto_champ_driver")
       \/ /\ args.team # None
          /\ \E l1 \in LatestRes, l2 \in LatestRes, r \in QueryRes :
                LET res == answer_with_db("team_drivers",
                                          [team |-> args.team, year |-> year], l1, l2, r)
                IN  /\ \A k \in 1..Len(res.calls) : FeasibleCall(res.calls[k])
                    /\ AutoStep(res, "auto_champ_driver")

\* app.py:309-312
AutoChampDriver ==
    /\ pc = "auto_champ_driver"
    /\ \/ /\ ~AutoHasYear(year)
          /\ Skip("auto_driver")
       \/ /\ AutoHasYear(year)
          /\ \E r \in QueryRes :
                LET res == answer_with_db("champ_driver", [year |-> year], "ok", "ok", r)
                IN  /\ \A k \in 1..Len(res.calls) : FeasibleCall(res.calls[k])
                    /\ AutoStep(res, "auto_champ_constructor")

\* app.py:313-315
AutoChampConstructor ==
    /\ pc = "auto_champ_constructor"
    /\ \E r \in QueryRes :
          LET res == answer_with_db("champ_constructor", [year |-> year], "ok", "ok", r)
          IN  /\ \A k \in 1..Len(res.calls) : FeasibleCall(res.calls[k])
              /\ AutoStep(res, "auto_driver")

\* app.py:316-320
AutoDriver ==
    /\ pc = "auto_driver"
    /\ \/ /\ args.driver = None
          /\ ReturnDb(None, <<>>)
       \/ /\ args.driver # None
          /\ \E l1 \in LatestRes, l2 \in LatestRes, r \in QueryRes :
                LET res == answer_with_db("driver_wins",
                                          [driver |-> args.driver, year |-> year], l1, l2, r)
                IN  /\ \A k \in 1..Len(res.calls) : FeasibleCall(res.calls[k])
                    /\ AutoStep(res, "return")

\* step 2 of build_answer (app.py:352-355) with answer_with_live (app.py:324-342)
Live ==
    /\ pc = "live"
    /\ \/ /\ ~LIVE_OK
          /\ pc' = "fallback"
          /\ UNCHANGED <<out, ans, outcome, calls>>
       \/ /\ LIVE_OK
          /\ \E rsp \in LiveResponses :
                LET o == answer_with_live(rsp)
                IN  /\ calls' = Append(calls, Call("live", None, None, None,
                                                   IF rsp.raise THEN "raise" ELSE "ok"))
                    /\ out' = o
                    /\ IF o # None
                       THEN ans' = o /\ outcome' = "returned" /\ pc' = "render"
                       ELSE pc' = "fallback" /\ UNCHANGED <<ans, outcome>>
    /\ UNCHANGED <<msgs, prompt, intent, args, year, submitted, sessionFrame>>

\* step 3 of build_answer (app.py:357-359)
Fallback ==
    /\ pc = "fallback"
    /\ ans' = NoResultMsg
    /\ outcome' = "returned"
    /\ pc' = "render"
    /\ UNCHANGED <<msgs, prompt, intent, args, year, out, calls, submitted, sessionFrame>>

\* the assistant turn is appended (app.py:400-402)
Render ==
    /\ pc = "render"
    /\ msgs' = Append(msgs, <<"assistant", ans>>)
    /\ pc' = "ended"
    /\ UNCHANGED <<prompt, intent, args, year, out, ans, outcome, calls, submitted,
                   sessionFrame>>

\* the script run is over, by its last statement or by the exception: its locals
\* are gone and the page waits for the next prompt; session_state.msgs stays
EndRun ==
    /\ pc \in {"ended", "crashed"}
    /\ pc' = "idle"
    /\ prompt' = <<>>
    /\ intent' = "auto"
    /\ args' = NoArgs
    /\ year' = None
    /\ out' = None
    /\ ans' = None
    /\ outcome' = "none"
    /\ calls' = <<>>
    /\ UNCHANGED <<msgs, submitted, sessionFrame>>

Next ==
    \/ \E q \in AppQuestions : Submit(q)
    \/ DbOff
    \/ DbDirect
    \/ AutoYear
    \/ AutoTeam
    \/ AutoChampDriver
    \/ AutoChampConstructor
    \/ AutoDriver
    \/ Live
    \/ Fallback
    \/ Render
    \/ EndRun

Spec == Init /\ [][Next]_vars

(***************************************************************************)
(* parse_question on its own: the question is drawn from the phrases       *)
(* below, joined by single spaces.                                         *)
(***************************************************************************)
MaxPhrases == 3

Phrases ==
    { <<"w","h","o"," ","d","r","i","v","e","s"," ","f","o","r">>, <<"w","i","n","s">>, <<"w","h","o"," ","w","o","n">>, <<"d","r","i","v","e","r"," ","c","h","a","m","p","i","o","n">>,
      <<"c","o","n","s","t","r","u","c","t","o","r"," ","c","h","a","m","p","i","o","n">>, <<"p","o","i","n","t","s">>, <<"b","y"," ","r","a","c","e">>, <<"F","e","r","r","a","r","i">>, <<"t","o","r","o"," ","r","o","s","s","o">>,
      <<"a","l","p","h","a","t","a","u","r","i">>, <<"a","l","p","h","a"," ","t","a","u","r","i">>, <<"2","0","2","1">>, <<"M","a","x"," ","V","e","r","s","t","a","p","p","e","n">> }

Join(a, b) == IF a = <<>> THEN b ELSE a \o <<" ">> \o b

RECURSIVE QuestionsUpTo(_)
QuestionsUpTo(n) ==
    IF n = 0 THEN {<<>>}
    ELSE LET S == QuestionsUpTo(n - 1) IN S \cup {Join(a, p) : a \in S, p \in Phrases}

Questions == QuestionsUpTo(MaxPhrases)

AppIdle ==
    /\ DB_OK = FALSE /\ LIVE_OK = FALSE /\ latestYear = None /\ msgs = <<>>
    /\ pc = "idle" /\ prompt = <<>> /\ intent = "auto"
    /\ args = [team |-> None, driver |-> None, year |-> None]
    /\ year = None /\ out = None /\ ans = None /\ outcome = "none"
    /\ calls = <<>> /\ submitted = 0

InitParse == AppIdle /\ LiveIdle /\ SqlIdle /\ pq \in Questions /\ pres = None

Parse ==
    /\ pres = None
    /\ \E s \in {Slots(pq)} : pres' = <<[slots |-> s, result |-> MapSlots(s)]>>
    /\ UNCHANGED <<pq, appVars, liveVars, sqlVars>>

NextParse == Parse

SpecParse == InitParse /\ [][NextParse]_vars


(***************************************************************************)
(* ask_live (backend/rag_web.py:11-56) on its own.  A URL is a number; the *)
(* URLs of a list are numbered in the order of their first appearance,     *)
(* which every list of URLs is up to renaming.  An entry of the grounding  *)
(* metadata without a uri is 0.  A citation's title is the position of its *)
(* entry in the list it was read from.                                     *)
(***************************************************************************)
MaxCites == 9
CitationCap == 8

\* the lists of at most n URLs, each with the number of its distinct URLs
RECURSIVE Grow(_)
Grow(n) ==
    IF n = 0 THEN {<<<<>>, 0>>}
    ELSE {IF q[2] = 0 THEN q[1]
          ELSE <<Append(q[1][1], q[2]), IF q[2] > q[1][2] THEN q[2] ELSE q[1][2]>> :
             q \in {r \in Grow(n - 1) \X (0..n) :
                       r[2] = 0 \/ (Len(r[1][1]) = n - 1 /\ r[2] <= r[1][2] + 1)}}

UrlLists(n) == {p[1] : p \in Grow(n)}

LongLists == UrlLists(MaxCites)

\* short lists of metadata entries, some without a uri
MixedSupport == UNION {[1..n -> 0..2] : n \in 0..2}

\* the service's response: the supporting_content entries of the grounding
\* metadata, the entry whose attributes cannot be read (0: none), and the URLs of
\* the markdown links of the text
Responses ==
    {[support |-> IF meta THEN u ELSE <<>>, failAt |-> 0,
      links |-> IF meta THEN <<>> ELSE u] : u \in LongLists, meta \in BOOLEAN}
        \cup {[support |-> u, failAt |-> f, links |-> l] :
                 u \in MixedSupport, f \in 0..2, l \in UrlLists(2)}

\* the citations of the first n entries of a list, those without a uri skipped
RECURSIVE Cited(_, _)
Cited(u, n) ==
    IF n = 0 THEN <<>>
    ELSE Cited(u, n - 1) \o (IF u[n] # 0 THEN <<[title |-> n, url |-> u[n]]>> ELSE <<>>)

\* the try block (rag_web.py:28-41): the loop appends until an access raises
MetaCitations(r) ==
    Cited(r.support,
          IF r.failAt \in 1..Len(r.support) THEN r.failAt - 1 ELSE Len(r.support))

\* the markdown links of the text (rag_web.py:46-47)
LinkCitations(r) == Cited(r.links, Len(r.links))

\* rag_web.py:27-47: the links are parsed only if the metadata gave no citation
Collect(r) == IF MetaCitations(r) # <<>> THEN MetaCitations(r) ELSE LinkCitations(r)

\* "De-dupe citations" (rag_web.py:50-55), from the k-th citation on
RECURSIVE Dedupe(_, _, _)
Dedupe(cs, k, seen) ==
    IF k > Len(cs) THEN <<>>
    ELSE IF cs[k].url \notin seen
         THEN <<cs[k]>> \o Dedupe(cs, k + 1, seen \cup {cs[k].url})
    ELSE Dedupe(cs, k + 1, seen)

\* a slice that lets every citation through
CapNone(u) == u

\* uniq[:8] (rag_web.py:56)
Cap(u) == SubSeq(u, 1, IF Len(u) < CitationCap THEN Len(u) ELSE CitationCap)

\* the "citations" of ask_live's result
ask_live(r) == Cap(Dedupe(Collect(r), 1, {}))

InitLive == AppIdle /\ ParseIdle /\ SqlIdle /\ resp \in Responses /\ cites = None

AskLive ==
    /\ cites = None
    /\ cites' = <<ask_live(resp)>>
    /\ UNCHANGED <<resp, appVars, parseVars, sqlVars>>

NextLive == AskLive

SpecLive == InitLive /\ [][NextLive]_vars

(***************************************************************************)
(* The NL -> SQL agent (backend/sql_agent.py:111-162): llm_to_sql takes    *)
(* the query out of the model's fenced reply and applies the safety        *)
(* checks, answer() adds the row cap and hands the text to DuckDB.  The    *)
(* reply is an input: no fenced block, or the text inside the fence, drawn *)
(* from the fragments below concatenated.  The regexes are matched on the  *)
(* lower-cased text (re.I).                                                *)
(***************************************************************************)
MaxSqlParts == 3
DefaultMaxRows == 200

IsWordChar(c) == IsLetter(c) \/ IsDigit(c) \/ c = "_"

\* \b between s[i-1] and s[i]
Boundary(s, i) ==
    (i > 1 /\ i - 1 <= Len(s) /\ IsWordChar(s[i - 1]))
        # (i >= 1 /\ i <= Len(s) /\ IsWordChar(s[i]))

\* \s* from position i on: the first position that holds no whitespace
RECURSIVE SkipSpace(_, _)
SkipSpace(s, i) == IF i <= Len(s) /\ IsSpace(s[i]) THEN SkipSpace(s, i + 1) ELSE i

\* re.match(r"^\s*(with|select)\b", sql, re.I) (sql_agent.py:131)
StartsWithSelect(s) ==
    \E t \in {Lower(s)} : \E i \in {SkipSpace(t, 1)} : \E w \in {<<"w","i","t","h">>, <<"s","e","l","e","c","t">>} :
        MatchAt(t, w, i) /\ Boundary(t, i + Len(w))

\* a safety policy that lets every semicolon through
ChainedNever(s) == FALSE

\* ";" in sql.strip()[:-1] (sql_agent.py:134)
Chained(s) == \E t \in {Strip(s)} : \E i \in 1..(Len(t) - 1) : t[i] = ";"

SqlError(e) == [ok |-> FALSE, sql |-> <<>>, err |-> e]

\* llm_to_sql from the reply on (sql_agent.py:124-142): r is <<>> when the reply
\* has no fenced block
llm_to_sql(r) ==
    IF r = None THEN SqlError("LLM did not return SQL in a fenced block.")
    ELSE IF ~StartsWithSelect(Strip(r[1]))
         THEN SqlError("Only SELECT/WITH queries are allowed.")
    ELSE IF Chained(Strip(r[1])) THEN SqlError("Multiple statements not allowed.")
    ELSE [ok |-> TRUE, sql |-> Strip(r[1]), err |-> ""]

\* re.search(r"\blimit\b", sql, re.I) (sql_agent.py:152), t lower-cased
HasLimit(t) ==
    \E i \in 1..Len(t) : MatchAt(t, <<"l","i","m","i","t">>, i) /\ Boundary(t, i) /\ Boundary(t, i + 5)

AggNames == {<<"c","o","u","n","t">>, <<"s","u","m">>, <<"a","v","g">>, <<"m","i","n">>, <<"m","a","x">>}

\* re.search(r"\b(count|sum|avg|min|max)\s*\(", sql, re.I) (sql_agent.py:153)
HasAggregate(t) ==
    \E i \in 1..Len(t) : \E w \in AggNames :
        /\ MatchAt(t, w, i)
        /\ Boundary(t, i)
        /\ \E j \in {SkipSpace(t, i + Len(w))} : j <= Len(t) /\ t[j] = "("

\* re.search(r"\bgroup\s+by\b", sql, re.I) (sql_agent.py:154)
HasGroupBy(t) ==
    \E i \in 1..Len(t) :
        /\ MatchAt(t, <<"g","r","o","u","p">>, i)
        /\ Boundary(t, i)
        /\ i + 5 <= Len(t)
        /\ IsSpace(t[i + 5])
        /\ \E j \in {SkipSpace(t, i + 5)} : MatchAt(t, <<"b","y">>, j) /\ Boundary(t, j + 2)

\* a row cap decided without looking for GROUP BY
NeedsLimitNoGroup(s) == \E t \in {Lower(s)} : ~HasLimit(t) /\ ~HasAggregate(t)

\* needs_limit (sql_agent.py:151-155)
needs_limit(s) == \E t \in {Lower(s)} : ~HasLimit(t) /\ ~HasAggregate(t) /\ ~HasGroupBy(t)

\* f"\nLIMIT {max_rows}" (sql_agent.py:157)
LimitClause(n) == <<Newline>> \o <<"L","I","M","I","T"," ">> \o StrOf(n)

SqlParts ==
    { <<"s","e","l","e","c","t"," ","a">>, <<"S","E","L","E","C","T"," ","M","a","x"," ","(","a",")">>, <<"w","i","t","h"," ","t">>, <<"d","r","o","p"," ","t">>, <<" ","l","i","m","i","t"," ","5">>,
      <<" ","f","r","o","m"," ","l","i","m","i","t","s">>, <<"_","m","a","x","(","a",")">>, <<" ","g","r","o","u","p">> \o <<Newline>> \o <<"b","y"," ","a">>, <<";">>, <<" ">> }

RECURSIVE SqlTextsUpTo(_)
SqlTextsUpTo(n) ==
    IF n = 0 THEN {<<>>}
    ELSE {t \o p : t \in SqlTextsUpTo(n - 1), p \in SqlParts \cup {<<>>}}

\* the model's replies: no fenced block, or a fenced block with the text
LlmReplies == {None} \cup {<<t>> : t \in SqlTextsUpTo(MaxSqlParts) \ {<<>>}}

MaxRowsArgs == {1, DefaultMaxRows}

InitSql ==
    /\ AppIdle /\ ParseIdle /\ LiveIdle
    /\ llm \in LlmReplies
    /\ max_rows \in MaxRowsArgs
    /\ sqlpc = "start"
    /\ sql = <<>>
    /\ passed = None
    /\ connected = FALSE
    /\ executed = None

\* answer(): sql = llm_to_sql(question) (sql_agent.py:145); its ValueError leaves
\* answer() at once
SqlGenerate ==
    /\ sqlpc = "start"
    /\ \E r \in {llm_to_sql(llm)} :
          IF r.ok
          THEN sql' = r.sql /\ passed' = <<r.sql>> /\ sqlpc' = "limit"
          ELSE sqlpc' = "rejected" /\ UNCHANGED <<sql, passed>>
    /\ UNCHANGED <<llm, max_rows, connected, executed, appVars, parseVars, liveVars>>

\* answer(): the row cap (sql_agent.py:151-157)
SqlLimit ==
    /\ sqlpc = "limit"
    /\ sql' = (IF needs_limit(sql) THEN sql \o LimitClause(max_rows) ELSE sql)
    /\ sqlpc' = "connect"
    /\ UNCHANGED <<llm, max_rows, passed, connected, executed, appVars, parseVars, liveVars>>

\* answer(): con = duckdb.connect("f1.duckdb") (sql_agent.py:159)
SqlConnect ==
    /\ sqlpc = "connect"
    /\ connected' = TRUE
    /\ sqlpc' = "execute"
    /\ UNCHANGED <<llm, max_rows, sql, passed, executed, appVars, parseVars, liveVars>>

\* answer(): con.execute(sql) (sql_agent.py:160)
SqlExecute ==
    /\ sqlpc = "execute"
    /\ executed' = <<sql>>
    /\ sqlpc' = "done"
    /\ UNCHANGED <<llm, max_rows, sql, passed, connected, appVars, parseVars, liveVars>>

NextSql == SqlGenerate \/ SqlLimit \/ SqlConnect \/ SqlExecute

SpecSql == InitSql /\ [][NextSql]_vars

(***************************************************************************)
(* Properties of the answer engine and the session (specification Spec)    *)
(***************************************************************************)
\* build_answer has returned or raised
Finished == pc \in {"render", "ended", "crashed"}
\* answer_with_db is running
InDbStep == pc \in {"db", "auto_team", "auto_champ_driver", "auto_champ_constructor",
                    "auto_driver"}
QueryOps == {"latest_year", "q_constructor_drivers", "q_driver_wins", "q_driver_champion",
             "q_constructor_champion", "q_points_by_race_for_constructor"}
LookupOps == QueryOps \ {"latest_year"}
IsLookup(c) == c.op \in LookupOps
Lookups == SelectSeq(calls, IsLookup)
LiveCalled == \E k \in 1..Len(calls) : calls[k].op = "live"
QueryRaised == \E k \in 1..Len(calls) : calls[k].op \in QueryOps /\ calls[k].res = "raise"
LookupRaised == \E k \in 1..Len(calls) : IsLookup(calls[k]) /\ calls[k].res = "raise"
\* some lookup returned rows, well-formed or not
RowsReturned == \E k \in 1..Len(calls) : calls[k].res \in {"rows", "bad"}
\* the live-intent vocabulary of the classifier
LiveVocab ==
    { <<"l","i","v","e">>, <<"t","o","d","a","y">>, <<"l","a","t","e","s","t">>, <<"n","e","w","s">>, <<"p","e","n","a","l","t","y">>, <<"i","n","v","e","s","t","i","g","a","t","i","o","n">>,
      <<"f","i","a">>, <<"s","t","e","w","a","r","d","s">>, <<"r","u","m","o","r">> }
HasLiveVocab(q) == \E w \in LiveVocab : Contains(Lower(q), w)

\* C1: whatever the backends do, build_answer returns a non-empty text, and the
\* fixed no-result message when neither backend yields output.
C1_AlwaysNonEmptyText ==
    Finished =>
        /\ outcome = "returned"
        /\ ans # <<>>
        /\ (out = None => ans = NoResultMsg)

\* C2: no failure inside answer composition leaves build_answer as an exception.
C2_NoExceptionEscapes == outcome # "raised"

\* C3: after n submitted questions, once the script run is over, the log holds 2n
\* entries alternating user, assistant.
C3_LogAlternates ==
    pc \in {"idle", "ended"} =>
        /\ Len(msgs) = 2 * submitted
        /\ \A k \in 1..Len(msgs) : msgs[k][1] = (IF k % 2 = 1 THEN "user" ELSE "assistant")

\* C4 (as claimed): if a query of the structured backend raises, build_answer still
\* invokes the live backend (when available).  Stated of the runs in which
\* build_answer returns, so that what refutes it is the skipped live call alone.
C4_RaiseStillTriesLive ==
    (pc \in {"render", "ended"} /\ LookupRaised /\ LIVE_OK) => LiveCalled

\* C4 (amended): if a query of the structured backend raises and no lookup of the
\* request returns rows, build_answer invokes the live backend (when available)
\* and returns a non-empty answer.
C4_RaiseWithoutRowsTriesLive ==
    (Finished /\ QueryRaised /\ ~RowsReturned) =>
        /\ outcome = "returned"
        /\ ans # <<>>
        /\ (LIVE_OK => LiveCalled)

C4_Witness ==
    /\ pc = "render"
    /\ LIVE_OK
    /\ LiveCalled
    /\ LookupRaised
    /\ ans # NoResultMsg

\* C5: the backends are consulted in the order structured, live, fallback: no
\* live call while the structured step runs, nothing is called after the live
\* call, the fallback is reached only after both, and for a question without
\* live-intent vocabulary the live backend is not called once the structured
\* step has produced output.
C5_StructuredThenLiveThenFallback ==
    /\ InDbStep => ~LiveCalled
    /\ \A k \in 1..Len(calls) : calls[k].op = "live" => k = Len(calls)
    /\ (pc = "fallback" \/ (Finished /\ outcome = "returned" /\ ans = NoResultMsg)) =>
            (~RowsReturned /\ (LIVE_OK => LiveCalled))
    /\ (LiveCalled /\ \E k \in 1..Len(calls) : calls[k].res = "rows") =>
            HasLiveVocab(prompt)

C5_Witness ==
    /\ pc = "fallback"
    /\ LiveCalled
    /\ Len(Lookups) >= 2

\* C6: with the live backend available and live-intent vocabulary in the
\* question, the live backend is invoked even if the structured step produced
\* output.
C6_LiveIntentAlwaysTriesLive ==
    (pc \in {"render", "ended"} /\ LIVE_OK /\ HasLiveVocab(prompt)) => LiveCalled

\* the lookups the auto chain is to try, in order; hasYear tells whether the
\* champion lookups are among them
AutoPlan(hasYear) ==
    (IF args.team # None THEN <<"q_constructor_drivers">> ELSE <<>>)
        \o (IF hasYear THEN <<"q_driver_champion", "q_constructor_champion">> ELSE <<>>)
        \o (IF args.driver # None THEN <<"q_driver_wins">> ELSE <<>>)

\* the lookups made so far follow the plan, only the last one may have returned
\* rows, and a finished chain either ended on rows or went through the plan
AutoFollows(plan) ==
    LET L == Lookups
    IN  /\ Len(L) <= Len(plan)
        /\ \A k \in 1..Len(L) : L[k].op = plan[k]
        /\ \A k \in 1..(Len(L) - 1) : L[k].res \in {"raise", "empty"}
        /\ ~InDbStep =>
              \/ (L # <<>> /\ L[Len(L)].res \in {"rows", "bad"})
              \/ Len(L) = Len(plan)

InAutoChain == intent = "auto" /\ DB_OK /\ pc # "idle" /\ pc # "db"

\* C8 (as claimed): the auto chain tries team_drivers (team slot present),
\* champion_driver then champion_constructor (year slot present), driver_wins
\* (driver slot present), and stops at the first non-empty lookup.
C8_AutoChainYearSlot == InAutoChain => AutoFollows(AutoPlan(args.year # None))

\* C8 (amended): as claimed, but the champion lookups are tried whenever a year
\* is at hand: the year slot or, without one, the latest year of the calendar.
C8_AutoChainResolvedYear == InAutoChain => AutoFollows(AutoPlan(year # None))

C8_Witness ==
    /\ intent = "auto"
    /\ pc = "render"
    /\ args.year = None
    /\ Len(Lookups) = 3
    /\ Lookups[1].op = "q_constructor_drivers" /\ Lookups[1].res = "empty"
    /\ Lookups[2].op = "q_driver_champion" /\ Lookups[2].res = "raise"
    /\ Lookups[3].op = "q_constructor_champion" /\ Lookups[3].res = "rows"


\* the year each question contains, <<>> when it contains none
YearOfQuestion == [q \in AppQuestions |-> ExtractYear(Lower(Strip(q)))]

\* C14: every structured lookup of a request queries the year of the question
\* when the question contains one; the latest year of the race calendar is
\* looked up and used only when it contains none.
C14_LookupYearIsQuestionYear ==
    pc # "idle" =>
        \A y \in {YearOfQuestion[prompt]} :
            /\ \A k \in 1..Len(calls) :
                  IsLookup(calls[k]) =>
                      IF y # None THEN calls[k].year = y
                      ELSE calls[k].year \in {None, latestYear}
            /\ y # None => \A k \in 1..Len(calls) : calls[k].op # "latest_year"

C14_Witness ==
    /\ pc = "render"
    /\ intent = "driver_wins"
    /\ YearOfQuestion[prompt] = <<2023>>
    /\ latestYear = <<2024>>
    /\ Len(calls) = 1
    /\ calls[1].op = "q_driver_wins" /\ calls[1].year = <<2023>> /\ calls[1].res = "rows"

\* the answers the structured backend can give to the request (its formatted
\* rows) and the live backend's (a non-blank text)
DbAnswers ==
    { FmtTeamDrivers(args.team, y) : y \in {args.year, latestYear, None} }
        \cup { FmtDriverWins(args.driver, y) : y \in {args.year, latestYear, None} }
        \cup { FmtTeamPoints(args.team, y) : y \in {args.year, latestYear, None} }
        \cup { FmtChampDriver(y) : y \in {args.year, latestYear} }
        \cup { FmtChampConstructor(y) : y \in {args.year, latestYear} }
LiveAnswers == {answer_with_live(r) : r \in LiveResponses} \ {None}

\* C15: a backend whose startup flag is off is never called, whatever the
\* question; the answer is then an answer of the other backend or the fixed
\* no-result message, never an error text, and with both flags off it is the
\* no-result message.
C15_OffBackendNeverCalled ==
    /\ ~DB_OK => \A k \in 1..Len(calls) : calls[k].op \notin QueryOps
    /\ ~LIVE_OK => ~LiveCalled
    /\ (Finished /\ ~DB_OK) =>
          /\ outcome = "returned"
          /\ ans \in LiveAnswers \cup {NoResultMsg}
    /\ (Finished /\ ~LIVE_OK /\ outcome = "returned") => ans \in DbAnswers \cup {NoResultMsg}
    /\ (Finished /\ ~DB_OK /\ ~LIVE_OK) => ans = NoResultMsg

C15_Witness ==
    /\ pc = "render"
    /\ ~DB_OK /\ ~LIVE_OK
    /\ intent = "team_drivers"
    /\ calls = <<>>
    /\ ans = NoResultMsg

(***************************************************************************)
(* Properties of parse_question (specification SpecParse)                  *)
(***************************************************************************)
Parsed == pres # None
PSlots == pres[1].slots
PResult == pres[1].result
PText == PSlots.text

\* the phrase and slot conditions of the five rules, as the claim lists them
Rule1 ==
    /\ \/ Contains(PText, <<"w","h","o"," ","d","r","i","v","e","s"," ","f","o","r">>)
       \/ Contains(PText, <<"d","r","i","v","e","r","s"," ","f","o","r">>)
       \/ Contains(PText, <<"w","h","o"," ","d","r","i","v","e","s">>)
    /\ PSlots.team # None
Rule2 == Contains(PText, <<"w","i","n","s">>) /\ PSlots.driver # None
Rule3 ==
    /\ \/ Contains(PText, <<"w","h","o"," ","w","o","n">>)
       \/ (Contains(PText, <<"c","h","a","m","p","i","o","n">>) /\ Contains(PText, <<"d","r","i","v","e","r">>))
    /\ PSlots.year # None
Rule4 ==
    Contains(PText, <<"c","o","n","s","t","r","u","c","t","o","r">>) /\ Contains(PText, <<"c","h","a","m","p","i","o","n">>) /\ PSlots.year # None
Rule5 == Contains(PText, <<"p","o","i","n","t","s">>) /\ Contains(PText, <<"b","y"," ","r","a","c","e">>) /\ PSlots.team # None

\* C7: parse_question returns the intent of the first rule, in the order 1 to 5,
\* whose phrase and slot conditions hold, and auto with the extracted team, driver
\* and year when none does.
C7_FirstMatchingRule ==
    Parsed =>
        /\ PResult.intent =
              (IF Rule1 THEN "team_drivers"
               ELSE IF Rule2 THEN "driver_wins"
               ELSE IF Rule3 THEN "champ_driver"
               ELSE IF Rule4 THEN "champ_constructor"
               ELSE IF Rule5 THEN "team_points"
               ELSE "auto")
        /\ PResult.intent = "auto" =>
              /\ PResult.team = PSlots.team
              /\ PResult.driver = PSlots.driver
              /\ PResult.year = PSlots.year

C7_Witness ==
    /\ Parsed
    /\ ~Rule1 /\ ~Rule2 /\ Rule3 /\ Rule4
    /\ PResult.intent = "champ_driver"

\* the spellings of the one team
AliasSpellings == {<<"t","o","r","o"," ","r","o","s","s","o">>, <<"a","l","p","h","a","t","a","u","r","i">>, <<"a","l","p","h","a"," ","t","a","u","r","i">>}
\* the other team names of TEAM_RE
OtherTeams == Range(TeamAlts) \ AliasSpellings

\* C9: a question naming the team by any of the three spellings, and no other
\* team, gets a team slot, the same canonical team under LOWER().
C9_AliasesOneTeam ==
    (/\ Parsed
     /\ \E a \in AliasSpellings : Contains(PText, a)
     /\ \A t \in OtherTeams : ~Contains(PText, t)) =>
        /\ PSlots.team # None
        /\ Lower(PSlots.team) = <<"a","l","p","h","a","t","a","u","r","i">>


\* a capitalized word: it begins with an upper-case letter
Capitalized(w) == w # <<>> /\ IsUpper(w[1])
\* the positions of the pairs of adjacent capitalized tokens of the question
CapitalizedPairs(w) == {i \in 1..(Len(w) - 1) : Capitalized(w[i]) /\ Capitalized(w[i + 1])}

\* C13: the driver slot is the first pair of adjacent whitespace-separated tokens
\* that are both capitalized words, and it is empty when the question has no
\* such pair (so a pair with a token that begins in lower case is never taken).
C13_DriverIsFirstCapitalizedPair ==
    Parsed =>
        \A w \in {Split(pq)} : \A caps \in {CapitalizedPairs(w)} :
            IF caps = {} THEN PSlots.driver = None
            ELSE PSlots.driver = normalize_name(w[Min(caps)] \o <<" ">> \o w[Min(caps) + 1])

(***************************************************************************)
(* Properties of ask_live (specification SpecLive)                         *)
(***************************************************************************)
\* C10: the citation list of ask_live has at most 8 entries, no two with the same
\* URL, each the first occurrence of its URL among the collected citations, in
\* their original order.
C10_CitationsCappedUnique ==
    cites # None =>
        \A c \in {cites[1]} : \A src \in {Collect(resp)} :
            /\ Len(c) <= 8
            /\ \A j \in 1..Len(c) : \A k \in 1..Len(c) : j < k => c[j].url # c[k].url
            /\ \A k \in 1..Len(c) :
                  /\ \E j \in 1..Len(src) : src[j] = c[k]
                  /\ \A j \in 1..Len(src) : src[j].url = c[k].url => c[k].title <= src[j].title
            /\ \A j \in 1..Len(c) : \A k \in 1..Len(c) : j < k => c[j].title < c[k].title

C10_Witness ==
    /\ cites # None
    /\ Len(Collect(resp)) = 9
    /\ \A j \in 1..9 : \A k \in 1..9 : j < k => Collect(resp)[j].url # Collect(resp)[k].url
    /\ Len(cites[1]) = 8
    /\ cites[1][8].title = 8


(***************************************************************************)
(* Properties of the NL -> SQL agent (specification SpecSql)               *)
(***************************************************************************)
\* a semicolon of s with statement text (a non-whitespace character) after it
SemicolonThenText(s) ==
    \E i \in 1..Len(s) : s[i] = ";" /\ \E j \in (i + 1)..Len(s) : ~IsSpace(s[j])
Semicolons(s) == {i \in 1..Len(s) : s[i] = ";"}

\* C11: a generated query in which a semicolon is followed by further statement
\* text is rejected by llm_to_sql, and a rejection comes before answer() connects
\* or executes; a query that passes has no semicolon, or one semicolon as its last
\* character.
C11_ChainedQueriesRejected ==
    /\ (llm # None /\ SemicolonThenText(llm[1]) /\ sqlpc # "start") => sqlpc = "rejected"
    /\ sqlpc = "rejected" => (passed = None /\ ~connected /\ executed = None)
    /\ (connected \/ executed # None) => passed # None
    /\ passed # None =>
          \/ Semicolons(passed[1]) = {}
          \/ Semicolons(passed[1]) = {Len(passed[1])}

C11_Witness ==
    /\ sqlpc = "rejected"
    /\ llm # None
    /\ StartsWithSelect(Strip(llm[1]))
    /\ Contains(llm[1], <<";","d","r","o","p"," ","t">>)


\* the words of t, by their first positions: a word is a maximal run of letters,
\* digits and underscores
WordStarts(t) == {i \in 1..Len(t) : IsWordChar(t[i]) /\ (i = 1 \/ ~IsWordChar(t[i - 1]))}
RECURSIVE WordEnd(_, _)
WordEnd(t, i) == IF i < Len(t) /\ IsWordChar(t[i + 1]) THEN WordEnd(t, i + 1) ELSE i
WordFrom(t, i) == SubSeq(t, i, WordEnd(t, i))

\* the query has the keyword LIMIT, a call of an aggregation, a GROUP BY
LimitKeyword(t) == \E i \in WordStarts(t) : WordFrom(t, i) = <<"l","i","m","i","t">>
AggregationCall(t) ==
    \E i \in WordStarts(t) :
        /\ WordFrom(t, i) \in AggNames
        /\ \E j \in {SkipSpace(t, WordEnd(t, i) + 1)} : j <= Len(t) /\ t[j] = "("
GroupByClause(t) ==
    \E i \in WordStarts(t) :
        /\ WordFrom(t, i) = <<"g","r","o","u","p">>
        /\ \E j \in {SkipSpace(t, WordEnd(t, i) + 1)} :
              j > WordEnd(t, i) + 1 /\ j \in WordStarts(t) /\ WordFrom(t, j) = <<"b","y">>

C16_ExecutedSingleStatement == executed # None => ~SemicolonThenText(executed[1])

=============================================================================
